---------------------------- MODULE Spec2Model ----------------------------
(***************************************************************************)
(* A model of the data-analytics pipeline: the DataTransformer             *)
(* (src/src/transformation.py) and the DataPipeline (src/src/pipeline.py). *)
(*                                                                         *)
(* Python objects live in a heap: a DataFrame is an object with an         *)
(* identity, `x = y` shares it, `y.copy()` makes a new one,                *)
(* `self.df = self.df.f(...)` rebinds the attribute to a new object and    *)
(* `self.df[c] = ...` changes the object in place.                         *)
(*                                                                         *)
(* A DataFrame is a record of its column names, their dtypes and its rows  *)
(* (each row a sequence of cells, aligned with the column names).  A cell  *)
(* is a triple: <<"nan", 0, 1>> is the null (NaN), <<"num", n, d>> the     *)
(* number n/d in lowest terms, <<"ts", n, d>> a timestamp.                 *)
(***************************************************************************)
EXTENDS Integers, Sequences, FiniteSets

VARIABLES
    heap,     \* the DataFrame objects: reference -> DataFrame
    tdf,      \* DataTransformer.df: a reference, or None
    data,     \* DataPipeline.data: a reference, or None
    ext,      \* the caller's own DataFrame: a reference, or None
    last,     \* the last call: its name, arguments, the state before it, its result
    out,      \* what the last call printed, in order
    steps,    \* the number of calls made so far
    fillna_none  \* what DataFrame.fillna(None) does in the installed pandas:
                 \* "raises" (ValueError, pandas 1 and 2) or "noop" (pandas 3)

vars == <<heap, tdf, data, ext, last, out, steps, fillna_none>>

---------------------------------------------------------------------------
(* Bounds of the model. *)

\* The most rows a source DataFrame has.
MaxRows == 2

\* The most calls on a DataTransformer in one run.
MaxCalls == 2

\* The most calls on a DataPipeline in one run.
MaxSteps == 3

---------------------------------------------------------------------------
(* Optional values: Python's None and a given value. *)

None == <<>>

Some(x) == <<x>>

IsNone(o) == Len(o) = 0

Get(o) == o[1]

\* The None reference (an attribute holding no object).
NoRef == "None"

Refs == {"o1", "o2", "o3", "o4", "o5"}

---------------------------------------------------------------------------
(* Cells and rational numbers. *)

Null == <<"nan", 0, 1>>

IsNull(c) == c[1] = "nan"

RECURSIVE GCD(_, _)
GCD(a, b) == IF b = 0 THEN a ELSE GCD(b, a % b)

\* The number n/d (n >= 0, d > 0) in lowest terms.
Num(n, d) == LET g == GCD(n, d) IN IF n = 0 THEN <<"num", 0, 1>> ELSE <<"num", n \div g, d \div g>>

Whole(n) == <<"num", n, 1>>

NumAdd(a, b) == Num(a[2] * b[3] + b[2] * a[3], a[3] * b[3])

NumDivInt(a, k) == Num(a[2], a[3] * k)

NumLess(a, b) == a[2] * b[3] < b[2] * a[3]


---------------------------------------------------------------------------
(* Sequences. *)


RECURSIVE SeqSum(_)
SeqSum(s) == IF s = <<>> THEN Whole(0) ELSE NumAdd(Head(s), SeqSum(Tail(s)))

\* The elements of s at the positions in idx, in order.
SelectIdx(s, idx) ==
    LET F[i \in 0..Len(s)] ==
            IF i = 0 THEN <<>>
            ELSE F[i - 1] \o (IF i \in idx THEN <<s[i]>> ELSE <<>>)
    IN F[Len(s)]

\* The order of keys (sequences of numbers of one length): lexicographic.
KeyLess(a, b) ==
    \E i \in 1..Len(a) : NumLess(a[i], b[i]) /\ \A j \in 1..(i - 1) : a[j] = b[j]

\* The key x put into the sorted t, after the keys that are not greater.
Insert(x, t) ==
    LET p == Cardinality({j \in 1..Len(t) : ~KeyLess(x, t[j])})
    IN SubSeq(t, 1, p) \o <<x>> \o SubSeq(t, p + 1, Len(t))

\* The keys of s sorted ascending (insertion sort; stable).
StableSort(s) ==
    LET F[i \in 0..Len(s)] ==
            IF i = 0 THEN <<>> ELSE Insert(s[i], F[i - 1])
    IN F[Len(s)]

---------------------------------------------------------------------------
(* DataFrames (pandas), as the transformer uses them.  A heap object is a record   *)
(* of its kind ("DataFrame", or "dict" for the dict of sheets pd.read_excel gives  *)
(* for sheet_name=None), its column names (a dict: its keys), dtypes and rows.     *)

IsFrame(T) == T.kind = "DataFrame"

\* The result of a library call: err = "" and the DataFrame, or the exception raised.
Ok(T) == [err |-> "", df |-> T]

Raise(e, T) == [err |-> e, df |-> T]

NRows(T) == Len(T.rows)

HasCol(T, c) == \E i \in 1..Len(T.cols) : T.cols[i] = c

\* The position of column c (the first of that name).
ColIdx(T, c) == CHOOSE i \in 1..Len(T.cols) : T.cols[i] = c /\ \A j \in 1..(i - 1) : T.cols[j] # c

AllHave(T, names) == \A i \in 1..Len(names) : HasCol(T, names[i])

\* df[c]: the cells of column c, in row order.
Column(T, c) == [i \in 1..NRows(T) |-> T.rows[i][ColIdx(T, c)]]

DtypeOf(T, c) == T.dtypes[ColIdx(T, c)]

\* The dtype pandas infers for a column read from a source.
InferDtype(cells) ==
    IF cells = <<>> THEN "object"
    ELSE IF \E i \in 1..Len(cells) : IsNull(cells[i]) THEN "float64"
    ELSE "int64"

\* df[c] = cells: column c replaced in place, or appended when c is new.
SetColumn(T, c, cells, dtype) ==
    IF HasCol(T, c)
    THEN LET k == ColIdx(T, c) IN
         [kind |-> T.kind, cols |-> T.cols,
          dtypes |-> [T.dtypes EXCEPT ![k] = dtype],
          rows |-> [i \in 1..NRows(T) |-> [T.rows[i] EXCEPT ![k] = cells[i]]]]
    ELSE [kind |-> T.kind, cols |-> Append(T.cols, c),
          dtypes |-> Append(T.dtypes, dtype),
          rows |-> [i \in 1..NRows(T) |-> Append(T.rows[i], cells[i])]]

\* The rows of T at the positions in idx, in order.
KeepRows(T, idx) == [T EXCEPT !.rows = SelectIdx(T.rows, idx)]

\* The cells of row i in the columns `names`.
RowKey(T, names, i) == [j \in 1..Len(names) |-> T.rows[i][ColIdx(T, names[j])]]

\* A drop_duplicates that keeps the last row of each key whatever `keep` says.
DropDuplicatesKeepLast(T, subset, keep) ==
    LET names == IF IsNone(subset) THEN T.cols ELSE Get(subset)
        key(i) == RowKey(T, names, i)
        kept(i) == \A j \in (i + 1)..NRows(T) : key(j) # key(i)
    IN IF ~AllHave(T, names) THEN Raise("KeyError", T)
       ELSE Ok(KeepRows(T, {i \in 1..NRows(T) : kept(i)}))

\* DataFrame.drop_duplicates(subset, keep): NaN equals NaN; a new object.
DropDuplicates(T, subset, keep) ==
    LET names == IF IsNone(subset) THEN T.cols ELSE Get(subset)
        key(i) == RowKey(T, names, i)
        kept(i) ==
            CASE keep = "first" -> \A j \in 1..(i - 1) : key(j) # key(i)
              [] keep = "last" -> \A j \in (i + 1)..NRows(T) : key(j) # key(i)
              [] OTHER -> \A j \in 1..NRows(T) : j # i => key(j) # key(i)
    IN IF ~AllHave(T, names) THEN Raise("KeyError", T)
       ELSE Ok(KeepRows(T, {i \in 1..NRows(T) : kept(i)}))

\* A dropna that drops the rows with a null in any column, targeted or not.
DropNaAny(T, cols) ==
    LET kept(i) == \A j \in 1..Len(T.cols) : ~IsNull(T.rows[i][j])
    IN IF ~AllHave(T, cols) THEN Raise("KeyError", T)
       ELSE Ok(KeepRows(T, {i \in 1..NRows(T) : kept(i)}))

\* DataFrame.dropna(subset=cols): the rows with no null in cols; a new object.
DropNa(T, cols) ==
    LET kept(i) == \A j \in 1..Len(cols) : ~IsNull(T.rows[i][ColIdx(T, cols[j])])
    IN IF ~AllHave(T, cols) THEN Raise("KeyError", T)
       ELSE Ok(KeepRows(T, {i \in 1..NRows(T) : kept(i)}))

\* A fillna that overwrites every cell.
FillCellsAll(cells, value) == [i \in 1..Len(cells) |-> value]

\* Series.fillna(value).
FillCells(cells, value) == [i \in 1..Len(cells) |-> IF IsNull(cells[i]) THEN value ELSE cells[i]]

\* Series.ffill(): each null takes the nearest non-null value before it.
RECURSIVE FFillCells(_, _)
FFillCells(cells, prev) ==
    IF cells = <<>> THEN <<>>
    ELSE LET c == IF IsNull(Head(cells)) THEN prev ELSE Head(cells)
         IN <<c>> \o FFillCells(Tail(cells), c)

Reverse(s) == [i \in 1..Len(s) |-> s[Len(s) + 1 - i]]

\* Series.bfill(): each null takes the nearest non-null value after it.
BFillCells(cells) == Reverse(FFillCells(Reverse(cells), Null))

NonNull(cells) == SelectSeq(cells, LAMBDA c : ~IsNull(c))

\* Series.mean(): over the non-null cells; NaN when there is none.
Mean(cells) ==
    LET xs == NonNull(cells)
    IN IF xs = <<>> THEN Null ELSE NumDivInt(SeqSum(xs), Len(xs))

\* Series.median(): over the non-null cells; NaN when there is none.
Median(cells) ==
    LET ys == NonNull(cells)
        zs == StableSort([i \in 1..Len(ys) |-> <<ys[i]>>])
        xs == [i \in 1..Len(zs) |-> zs[i][1]]
        n == Len(xs)
    IN IF n = 0 THEN Null
       ELSE IF n % 2 = 1 THEN xs[(n + 1) \div 2]
       ELSE NumDivInt(NumAdd(xs[n \div 2], xs[n \div 2 + 1]), 2)

\* df[cols] = df[cols].fillna(value) / .ffill() / .bfill(), by strategy: each column
\* of cols replaced in place.
MapColumns(T, cols, strategy, value) ==
    LET f(c) == CASE strategy = "fill" -> FillCells(c, value)
                  [] strategy = "ffill" -> FFillCells(c, Null)
                  [] OTHER -> BFillCells(c)
        F[i \in 0..Len(cols)] ==
            IF i = 0 THEN T
            ELSE SetColumn(F[i - 1], cols[i], f(Column(F[i - 1], cols[i])),
                           DtypeOf(F[i - 1], cols[i]))
    IN F[Len(cols)]

IsNumeric(dtype) == dtype \in {"float64", "int64"}

\* Series.astype(dtype) and pd.to_datetime(Series): the cells and dtype, or the error.
\* An integer target truncates and cannot hold a null.
AsType(cells, dtype) ==
    CASE dtype = "datetime" ->
            [err |-> "", dtype |-> "datetime64",
             cells |-> [i \in 1..Len(cells) |->
                          IF IsNull(cells[i]) THEN Null ELSE <<"ts", cells[i][2], cells[i][3]>>]]
      [] dtype = "int" ->
            IF \E i \in 1..Len(cells) : IsNull(cells[i])
            THEN [err |-> "ValueError", dtype |-> "", cells |-> cells]
            ELSE [err |-> "", dtype |-> "int64",
                  cells |-> [i \in 1..Len(cells) |-> Whole(cells[i][2] \div cells[i][3])]]
      [] dtype = "float" -> [err |-> "", dtype |-> "float64", cells |-> cells]
      [] OTHER -> [err |-> "TypeError", dtype |-> "", cells |-> cells]

\* DataFrame.rename(columns=mapping): mapping is a sequence of <<old, new>>; a new object.
Rename(T, mapping) ==
    LET new(c) == IF \E i \in 1..Len(mapping) : mapping[i][1] = c
                  THEN mapping[CHOOSE i \in 1..Len(mapping) : mapping[i][1] = c][2]
                  ELSE c
    IN [T EXCEPT !.cols = [i \in 1..Len(T.cols) |-> new(T.cols[i])]]

\* No two columns of one name.
Distinct(cols) == \A i, j \in 1..Len(cols) : cols[i] = cols[j] => i = j

\* One aggregation over the cells of a group (nulls are skipped).
AggCell(func, cells) ==
    CASE func = "sum" -> SeqSum(NonNull(cells))
      [] func = "count" -> Whole(Len(NonNull(cells)))
      [] OTHER -> Mean(cells)

AggDtype(func, dtype) ==
    CASE func = "sum" -> dtype
      [] func = "count" -> "int64"
      [] OTHER -> "float64"

\* df.groupby(group_by).agg(aggs).reset_index(): one row per group of non-null keys,
\* sorted by key; aggs is a sequence of <<column, function>>; a new object.
Aggregate(T, group_by, aggs) ==
    LET valid(i) == \A j \in 1..Len(group_by) : ~IsNull(RowKey(T, group_by, i)[j])
        first(i) == valid(i) /\ \A j \in 1..(i - 1) : RowKey(T, group_by, j) # RowKey(T, group_by, i)
        idx == SelectIdx([i \in 1..NRows(T) |-> i], {i \in 1..NRows(T) : first(i)})
        keys == StableSort([n \in 1..Len(idx) |-> RowKey(T, group_by, idx[n])])
        group(k, c) == SelectIdx(Column(T, c), {i \in 1..NRows(T) : RowKey(T, group_by, i) = k})
    IN IF group_by = <<>> THEN Raise("ValueError", T)
       ELSE IF ~AllHave(T, group_by) THEN Raise("KeyError", T)
       ELSE IF \E n \in 1..Len(aggs) : ~HasCol(T, aggs[n][1]) THEN Raise("KeyError", T)
       ELSE Ok([kind |-> "DataFrame", cols |-> group_by \o [n \in 1..Len(aggs) |-> aggs[n][1]],
                dtypes |-> [j \in 1..Len(group_by) |-> DtypeOf(T, group_by[j])]
                           \o [n \in 1..Len(aggs) |-> AggDtype(aggs[n][2], DtypeOf(T, aggs[n][1]))],
                rows |-> [g \in 1..Len(keys) |->
                            keys[g] \o [n \in 1..Len(aggs) |->
                                          AggCell(aggs[n][2], group(keys[g], aggs[n][1]))]]])

\* A caller's calculation, lambda df: df[c], and a caller's condition,
\* lambda df: df[c].notna() or lambda df: df[c] > 0: the values, or the error.
Calculation(calc, T) ==
    IF ~HasCol(T, calc.arg) THEN [err |-> "KeyError", cells |-> <<>>, dtype |-> ""]
    ELSE [err |-> "", cells |-> Column(T, calc.arg), dtype |-> DtypeOf(T, calc.arg)]

Condition(cond, T) ==
    IF ~HasCol(T, cond.arg) THEN [err |-> "KeyError", mask |-> <<>>]
    ELSE [err |-> "",
          mask |-> [i \in 1..NRows(T) |->
                      LET c == Column(T, cond.arg)[i]
                      IN IF cond.fn = "notna" THEN ~IsNull(c)
                         ELSE ~IsNull(c) /\ c[2] > 0]]

---------------------------------------------------------------------------
(* The heap. *)

\* What a reference no attribute holds points to.
FreeTable == [kind |-> "free", cols |-> <<>>, dtypes |-> <<>>, rows |-> <<>>]

\* A reference for a new object: none of those in use.
Alloc(used) == CHOOSE r \in Refs : r \notin used


\* A line the program prints: the message and the number or name in it.
Msg(m, n, x) == [msg |-> m, n |-> n, s |-> x]

\* The object a method that ends with `return self` returns: the instance it was
\* called on.
Self == "self"

\* The outcome of a method: the exception (or ""), the heap, self.df, the lines
\* printed and the value returned (Self, or a reference for the methods that
\* return a DataFrame).
Fail(e, h, df) == [err |-> e, h |-> h, df |-> df, out |-> <<>>, val |-> NoRef]

\* A method without its `return self`: the call returns None.
DoneReturnsNone(h, df, o) == [err |-> "", h |-> h, df |-> df, out |-> o, val |-> NoRef]

\* `return self` at the end of a DataTransformer method.
Done(h, df, o) == [err |-> "", h |-> h, df |-> df, out |-> o, val |-> Self]

---------------------------------------------------------------------------
(* DataTransformer: each method on the heap h and self.df = df; `used` are the   *)
(* references in use when the method runs.  self.df may be None, a DataFrame,    *)
(* or the dict extract() hands over for an Excel source: a dict has a length     *)
(* and a copy(), none of a DataFrame's attributes, and no key that is a list or  *)
(* a column name.                                                                *)

\* DataTransformer.__init__(df): self.df is the caller's object itself.
TransformerInit(df) == df

\* set_dataframe(df): self.df = df.copy().
set_dataframe(h, df, used, arg) ==
    IF arg = NoRef THEN Fail("AttributeError", h, df)
    ELSE LET n == Alloc(used) IN Done([h EXCEPT ![n] = h[arg]], n, <<>>)

\* get_dataframe(): self.df.copy().
get_dataframe(h, df, used) ==
    IF df = NoRef THEN Fail("AttributeError", h, df)
    ELSE LET n == Alloc(used)
         IN [err |-> "", h |-> [h EXCEPT ![n] = h[df]], df |-> df, out |-> <<>>, val |-> n]

\* A remove_duplicates that reports the rows left instead of the rows removed.
remove_duplicatesCountsLeft(h, df, used, subset, keep) ==
    IF df = NoRef THEN Fail("TypeError", h, df)
    ELSE IF ~IsFrame(h[df]) THEN Fail("AttributeError", h, df)
    ELSE LET r == DropDuplicates(h[df], subset, keep)
             n == Alloc(used)
         IN IF r.err # "" THEN Fail(r.err, h, df)
            ELSE Done([h EXCEPT ![n] = r.df], n,
                      <<Msg("Removed duplicate rows", NRows(r.df), "")>>)

\* remove_duplicates(subset, keep): self.df rebound to the frame without duplicates.
remove_duplicates(h, df, used, subset, keep) ==
    IF df = NoRef THEN Fail("TypeError", h, df)
    ELSE IF ~IsFrame(h[df]) THEN Fail("AttributeError", h, df)
    ELSE LET r == DropDuplicates(h[df], subset, keep)
             n == Alloc(used)
         IN IF r.err # "" THEN Fail(r.err, h, df)
            ELSE Done([h EXCEPT ![n] = r.df], n,
                      <<Msg("Removed duplicate rows", NRows(h[df]) - NRows(r.df), "")>>)

\* The loop of the mean and median strategies: each numeric column of cols filled in
\* place with its mean or median; a missing column raises after the columns before it are filled.
FillEach(T, cols, strategy) ==
    LET stat(cells) == IF strategy = "mean" THEN Mean(cells) ELSE Median(cells)
        F[i \in 0..Len(cols)] ==
            IF i = 0 THEN Ok(T)
            ELSE IF F[i - 1].err # "" THEN F[i - 1]
            ELSE LET U == F[i - 1].df
                     c == cols[i]
                 IN IF ~HasCol(U, c) THEN Raise("KeyError", U)
                    ELSE IF IsNumeric(DtypeOf(U, c))
                    THEN Ok(SetColumn(U, c, FillCells(Column(U, c), stat(Column(U, c))), DtypeOf(U, c)))
                    ELSE Ok(U)
    IN F[Len(cols)]

handle_missing_values(h, df, used, strategy, fill_value, columns) ==
    LET given == ~IsNone(columns) /\ Get(columns) # <<>>
        cols == IF given THEN Get(columns) ELSE h[df].cols
        T == h[df]
        applied == <<Msg("Applied strategy for missing values", 0, strategy)>>
        inplace(U) == Done([h EXCEPT ![df] = U], df, applied)
        frame == df # NoRef /\ IsFrame(T)
    IN IF ~given /\ ~frame THEN Fail("AttributeError", h, df)
       ELSE CASE strategy = "drop" ->
                    IF ~frame THEN Fail("AttributeError", h, df)
                    ELSE LET r == DropNa(T, cols)
                             n == Alloc(used)
                         IN IF r.err # "" THEN Fail(r.err, h, df)
                            ELSE Done([h EXCEPT ![n] = r.df], n, applied)
              [] strategy = "fill" ->
                    IF ~frame THEN Fail("TypeError", h, df)
                    ELSE IF ~AllHave(T, cols) THEN Fail("KeyError", h, df)
                    ELSE IF IsNone(fill_value)
                    THEN IF fillna_none = "raises" THEN Fail("ValueError", h, df)
                         ELSE inplace(T)
                    ELSE inplace(MapColumns(T, cols, "fill", Get(fill_value)))
              [] strategy = "ffill" ->
                    IF ~frame THEN Fail("TypeError", h, df)
                    ELSE IF ~AllHave(T, cols) THEN Fail("KeyError", h, df)
                    ELSE inplace(MapColumns(T, cols, "ffill", Null))
              [] strategy = "bfill" ->
                    IF ~frame THEN Fail("TypeError", h, df)
                    ELSE IF ~AllHave(T, cols) THEN Fail("KeyError", h, df)
                    ELSE inplace(MapColumns(T, cols, "bfill", Null))
              [] strategy \in {"mean", "median"} ->
                    IF df = NoRef THEN Fail("TypeError", h, df)
                    ELSE IF ~IsFrame(T) THEN Fail("KeyError", h, df)
                    ELSE LET r == FillEach(T, cols, strategy)
                         IN IF r.err # "" THEN Fail(r.err, [h EXCEPT ![df] = r.df], df)
                            ELSE inplace(r.df)
              [] OTHER -> Done(h, df, applied)

\* The loop of convert_types over the mapping, a sequence of <<column, dtype>>: each
\* column that exists converted in place; a failure leaves the earlier ones converted.
ConvertEach(T, type_mapping) ==
    LET F[i \in 0..Len(type_mapping)] ==
            IF i = 0 THEN Ok(T)
            ELSE IF F[i - 1].err # "" THEN F[i - 1]
            ELSE LET U == F[i - 1].df
                     c == type_mapping[i][1]
                     r == AsType(Column(U, c), type_mapping[i][2])
                 IN IF ~HasCol(U, c) THEN Ok(U)
                    ELSE IF r.err # "" THEN Raise(r.err, U)
                    ELSE Ok(SetColumn(U, c, r.cells, r.dtype))
    IN F[Len(type_mapping)]

convert_types(h, df, type_mapping) ==
    LET converted == <<Msg("Converted types for columns", Len(type_mapping), "")>>
    IN IF df = NoRef
       THEN IF type_mapping = <<>> THEN Done(h, df, converted)
            ELSE Fail("AttributeError", h, df)
       ELSE IF ~IsFrame(h[df])
       THEN IF type_mapping = <<>> THEN Done(h, df, converted)
            ELSE Fail("AttributeError", h, df)
       ELSE LET r == ConvertEach(h[df], type_mapping)
            IN IF r.err # "" THEN Fail(r.err, [h EXCEPT ![df] = r.df], df)
               ELSE Done([h EXCEPT ![df] = r.df], df, converted)

add_calculated_column(h, df, column_name, calculation) ==
    IF df = NoRef THEN Fail("TypeError", h, df)
    ELSE IF ~IsFrame(h[df]) THEN Fail("KeyError", h, df)
    ELSE LET r == Calculation(calculation, h[df])
         IN IF r.err # "" THEN Fail(r.err, h, df)
            ELSE Done([h EXCEPT ![df] = SetColumn(h[df], column_name, r.cells, r.dtype)], df,
                      <<Msg("Added calculated column", 0, column_name)>>)

filter_rows(h, df, used, condition) ==
    IF df = NoRef THEN Fail("TypeError", h, df)
    ELSE IF ~IsFrame(h[df]) THEN Fail("KeyError", h, df)
    ELSE LET r == Condition(condition, h[df])
             n == Alloc(used)
             U == KeepRows(h[df], {i \in 1..NRows(h[df]) : r.mask[i]})
         IN IF r.err # "" THEN Fail(r.err, h, df)
            ELSE Done([h EXCEPT ![n] = U], n,
                      <<Msg("Filtered out rows", NRows(h[df]) - NRows(U), "")>>)

rename_columns(h, df, used, mapping) ==
    IF df = NoRef \/ ~IsFrame(h[df]) THEN Fail("AttributeError", h, df)
    ELSE LET n == Alloc(used)
         IN Done([h EXCEPT ![n] = Rename(h[df], mapping)], n,
                 <<Msg("Renamed columns", Len(mapping), "")>>)

aggregate(h, df, used, group_by, aggregations) ==
    IF df = NoRef \/ ~IsFrame(h[df]) THEN Fail("AttributeError", h, df)
    ELSE LET r == Aggregate(h[df], group_by, aggregations)
             n == Alloc(used)
         IN IF r.err # "" THEN Fail(r.err, h, df)
            ELSE Done([h EXCEPT ![n] = r.df], n, <<Msg("Aggregated data", 0, "")>>)

---------------------------------------------------------------------------
(* DataPipeline.  The errors it raises itself are ValueErrors, told apart by     *)
(* their message.                                                                *)

NoDataLoaded == "ValueError: No data loaded. Run extract() first."

NoDataToLoad == "ValueError: No data to load. Run extract() first."

NoData == "ValueError: No data loaded."

UnsupportedSource == "ValueError: Unsupported source type"

UnsupportedDestination == "ValueError: Unsupported destination type"

\* The outcome of a pipeline method: as for the transformer, with self.data and
\* self.transformer.df.
PFail(e, h, df, d, o) == [err |-> e, h |-> h, df |-> df, data |-> d, out |-> o, val |-> None]

PDone(h, df, d, o, v) == [err |-> "", h |-> h, df |-> df, data |-> d, out |-> o, val |-> v]

\* DataIngestion.load_csv / load_json / load_excel / load_from_database: the object
\* read, or the error.  `found` says whether the file exists, `content` is the
\* DataFrame the source holds, `options` the names of the keyword options given.
\* load_excel reads with sheet_name=None unless the option is given, and
\* pd.read_excel then returns a dict of all the sheets.
Ingest(source_type, found, content, options) ==
    CASE source_type \in {"csv", "json"} ->
            IF found THEN Ok(content) ELSE Raise("FileNotFoundError", FreeTable)
      [] source_type = "excel" ->
            IF ~found THEN Raise("FileNotFoundError", FreeTable)
            ELSE IF "sheet_name" \in options THEN Ok(content)
            ELSE Ok([kind |-> "dict", cols |-> <<"Sheet1">>, dtypes |-> <<>>, rows |-> <<>>])
      [] source_type = "database" ->
            IF "query" \notin options THEN Raise("KeyError", FreeTable)
            ELSE IF found THEN Ok(content) ELSE Raise("OperationalError", FreeTable)
      [] OTHER -> Raise(UnsupportedSource, FreeTable)

\* An extract that forgets the data it holds when the source cannot be read.
extractClearsData(h, df, d, used, source_type, found, content, options) ==
    LET r == Ingest(source_type, found, content, options)
        n == Alloc(used)
        s == set_dataframe([h EXCEPT ![n] = r.df], df, used \cup {n}, n)
    IN IF r.err # "" THEN PFail(r.err, h, df, NoRef, <<>>)
       ELSE PDone(s.h, s.df, n, <<Msg("Loaded rows", Len(r.df.rows), "")>>, Some(Self))

\* extract(): self.data = the object the loader returns, then
\* self.transformer.set_dataframe(self.data).
extract(h, df, d, used, source_type, found, content, options) ==
    LET r == Ingest(source_type, found, content, options)
        n == Alloc(used)
        s == set_dataframe([h EXCEPT ![n] = r.df], df, used \cup {n}, n)
    IN IF r.err # "" THEN PFail(r.err, h, df, d, <<>>)
       ELSE PDone(s.h, s.df, n,
                  IF source_type = "database" THEN <<Msg("Loaded rows from database", Len(r.df.rows), "")>>
                  ELSE <<Msg("Loaded rows",
                             IF IsFrame(r.df) THEN Len(r.df.rows) ELSE Len(r.df.cols), "")>>,
                  Some(Self))

\* A step of transform: the outcome q of the next transformer call after the outcome
\* r of the calls before it, unless one of those raised; the lines printed add up.
Then(r, q) ==
    IF r.err # "" THEN r
    ELSE [q EXCEPT !.out = r.out \o q.out]

\* The loop over calculated_columns, a sequence of <<name, calculation>>.
AddEach(r, calculated_columns) ==
    LET F[i \in 0..Len(calculated_columns)] ==
            IF i = 0 THEN r
            ELSE Then(F[i - 1],
                      add_calculated_column(F[i - 1].h, F[i - 1].df, calculated_columns[i][1],
                                            calculated_columns[i][2]))
    IN F[Len(calculated_columns)]

\* The four steps of transform, each on the outcome r of the steps before it.  An
\* argument that is None or empty is skipped.
StepDuplicates(r, used, dups) ==
    IF dups
    THEN Then(r, remove_duplicates(r.h, r.df, used \cup {r.df}, None, "first"))
    ELSE r

StepMissing(r, used, handle_missing) ==
    IF ~IsNone(handle_missing) /\ Get(handle_missing) # ""
    THEN Then(r, handle_missing_values(r.h, r.df, used \cup {r.df}, Get(handle_missing),
                                       None, None))
    ELSE r

StepTypes(r, type_conversions) ==
    IF ~IsNone(type_conversions) /\ Get(type_conversions) # <<>>
    THEN Then(r, convert_types(r.h, r.df, Get(type_conversions)))
    ELSE r

StepCalculated(r, calculated_columns) ==
    IF ~IsNone(calculated_columns) /\ Get(calculated_columns) # <<>>
    THEN AddEach(r, Get(calculated_columns))
    ELSE r

\* A transform that handles the missing values before it removes the duplicates.
TransformStepsMissingFirst(h, df, used, dups, handle_missing, type_conversions, calculated_columns) ==
    StepCalculated(
        StepTypes(
            StepDuplicates(
                StepMissing(Done(h, df, <<>>), used, handle_missing),
                used, dups),
            type_conversions),
        calculated_columns)

\* The transformer calls of transform, in the order of the code.
TransformSteps(h, df, used, dups, handle_missing, type_conversions, calculated_columns) ==
    StepCalculated(
        StepTypes(
            StepMissing(
                StepDuplicates(Done(h, df, <<>>), used, dups),
                used, handle_missing),
            type_conversions),
        calculated_columns)

\* The end of transform: self.data = self.transformer.get_dataframe(), when no step
\* raised; r is the outcome of the steps, g of get_dataframe.
TransformData(r, g, d) ==
    IF g.err # "" THEN PFail(g.err, r.h, r.df, d, r.out)
    ELSE PDone(g.h, r.df, g.val, r.out, Some(Self))

\* A transform that hands the pipeline the transformer's DataFrame even when a step
\* raised.
TransformEndKeepsPartial(r, d, used) ==
    IF r.err # "" THEN PFail(r.err, r.h, r.df, r.df, r.out)
    ELSE TransformData(r, get_dataframe(r.h, r.df, used \cup {r.df}), d)

TransformEnd(r, d, used) ==
    IF r.err # "" THEN PFail(r.err, r.h, r.df, d, r.out)
    ELSE TransformData(r, get_dataframe(r.h, r.df, used \cup {r.df}), d)

transform(h, df, d, used, dups, handle_missing, type_conversions, calculated_columns) ==
    IF d = NoRef THEN PFail(NoDataLoaded, h, df, d, <<>>)
    ELSE TransformEnd(TransformSteps(h, df, used, dups, handle_missing, type_conversions,
                                     calculated_columns),
                      d, used)

\* A load that looks at the destination type before it looks for the data.
loadTypeFirst(h, df, d, destination_type) ==
    IF destination_type \notin {"csv", "excel"}
    THEN PFail(UnsupportedDestination, h, df, d, <<>>)
    ELSE IF d = NoRef THEN PFail(NoDataToLoad, h, df, d, <<>>)
    ELSE IF ~IsFrame(h[d]) THEN PFail("AttributeError", h, df, d, <<>>)
    ELSE PDone(h, df, d, <<Msg("Data saved", 0, destination_type)>>, Some(Self))

\* load(): write self.data to a CSV or an Excel file.
load(h, df, d, destination_type) ==
    IF d = NoRef THEN PFail(NoDataToLoad, h, df, d, <<>>)
    ELSE IF destination_type = "csv"
    THEN IF ~IsFrame(h[d]) THEN PFail("AttributeError", h, df, d, <<>>)
         ELSE PDone(h, df, d, <<Msg("Data saved to CSV", 0, "")>>, Some(Self))
    ELSE IF destination_type = "excel"
    THEN IF ~IsFrame(h[d]) THEN PFail("AttributeError", h, df, d, <<>>)
         ELSE PDone(h, df, d, <<Msg("Data saved to Excel", 0, "")>>, Some(Self))
    ELSE PFail(UnsupportedDestination, h, df, d, <<>>)

\* A chart dispatch that raises for a chart type it does not know.
ChartRejectsUnknown(T, chart_config) ==
    CASE chart_config.type \in {"bar", "line"} ->
            IF IsNone(chart_config.x) \/ IsNone(chart_config.y)
            THEN [err |-> "KeyError", out |-> <<>>]
            ELSE IF ~HasCol(T, Get(chart_config.x)) \/ ~HasCol(T, Get(chart_config.y))
            THEN [err |-> "ValueError", out |-> <<>>]
            ELSE [err |-> "", out |-> <<Msg("Figure saved", 0, chart_config.type)>>]
      [] chart_config.type = "heatmap" ->
            [err |-> "", out |-> <<Msg("Figure saved", 0, "heatmap")>>]
      [] OTHER -> [err |-> "ValueError", out |-> <<>>]

\* One chart of generate_report: the lines the reporter prints for it, or the error.
\* A chart is a record of its type and its x and y columns (None when the key is absent).
Chart(T, chart_config) ==
    CASE chart_config.type \in {"bar", "line"} ->
            IF IsNone(chart_config.x) \/ IsNone(chart_config.y)
            THEN [err |-> "KeyError", out |-> <<>>]
            ELSE IF ~HasCol(T, Get(chart_config.x)) \/ ~HasCol(T, Get(chart_config.y))
            THEN [err |-> "ValueError", out |-> <<>>]
            ELSE [err |-> "", out |-> <<Msg("Figure saved", 0, chart_config.type)>>]
      [] chart_config.type = "heatmap" ->
            [err |-> "", out |-> <<Msg("Figure saved", 0, "heatmap")>>]
      [] OTHER -> [err |-> "", out |-> <<>>]

generate_report(h, df, d, charts) ==
    IF d = NoRef THEN PFail(NoDataLoaded, h, df, d, <<>>)
    ELSE IF ~IsFrame(h[d]) THEN PFail("AttributeError", h, df, d, <<>>)
    ELSE LET html == <<Msg("HTML report generated", 0, "")>>
             F[i \in 0..Len(charts)] ==
                 IF i = 0 THEN [err |-> "", out |-> html]
                 ELSE IF F[i - 1].err # "" THEN F[i - 1]
                 ELSE LET c == Chart(h[d], charts[i])
                      IN [err |-> c.err, out |-> F[i - 1].out \o c.out]
             r == F[Len(charts)]
         IN IF r.err # "" THEN PFail(r.err, h, df, d, r.out)
            ELSE PDone(h, df, d, r.out, Some(Self))

\* A get_data that returns self.data itself.
get_dataNoCopy(h, df, d, used) ==
    IF d = NoRef THEN PFail(NoData, h, df, d, <<>>)
    ELSE PDone(h, df, d, <<>>, Some(d))

\* get_data(): self.data.copy(); the copy is val.
get_data(h, df, d, used) ==
    IF d = NoRef THEN PFail(NoData, h, df, d, <<>>)
    ELSE LET n == Alloc(used)
         IN PDone([h EXCEPT ![n] = h[d]], df, d, <<>>, Some(n))

\* get_summary(): the dict returned (without its memory_usage text) is val.
get_summary(h, df, d) ==
    IF d = NoRef THEN PDone(h, df, d, <<>>, Some([status |-> "No data loaded"]))
    ELSE IF ~IsFrame(h[d]) THEN PFail("AttributeError", h, df, d, <<>>)
    ELSE PDone(h, df, d, <<>>,
               Some([rows |-> Len(h[d].rows), columns |-> Len(h[d].cols),
                     column_names |-> h[d].cols]))

\* The stages of run_full_pipeline, each on the outcome r of the stages before it
\* and skipped when one of those raised.  kept are the caller's references.  A
\* config is None or the arguments of the stage: <<remove_duplicates,
\* handle_missing, type_conversions, calculated_columns>> for transform, the charts
\* for generate_report.
RunTransform(r, kept, transform_config) ==
    IF r.err # "" \/ IsNone(transform_config) THEN r
    ELSE Then(r, transform(r.h, r.df, r.data, kept \cup {r.df, r.data},
                           Get(transform_config)[1], Get(transform_config)[2],
                           Get(transform_config)[3], Get(transform_config)[4]))

RunReport(r, report_config) ==
    IF r.err # "" \/ IsNone(report_config) THEN r
    ELSE Then(r, generate_report(r.h, r.df, r.data,
                                 IF IsNone(Get(report_config)) THEN <<>>
                                 ELSE Get(Get(report_config))))

\* The end of run_full_pipeline: the two lines printed, and self.data returned.
RunEnd(r) ==
    IF r.err # "" THEN r
    ELSE [r EXCEPT !.out = r.out \o <<Msg("Pipeline completed successfully!", 0, ""),
                                      Msg("Processed rows",
                                          IF IsFrame(r.h[r.data]) THEN Len(r.h[r.data].rows)
                                          ELSE Len(r.h[r.data].cols), "")>>,
                   !.val = Some(r.data)]

\* A generate_report stage that runs although the transform before it raised.
RunReportAnyway(r, report_config) ==
    IF IsNone(report_config) \/ r.data = NoRef THEN r
    ELSE LET q == generate_report(r.h, r.df, r.data, <<>>)
         IN [q EXCEPT !.out = r.out \o q.out,
                      !.err = IF r.err # "" THEN r.err ELSE q.err]

\* A run_full_pipeline that writes the report whatever became of the transform.
run_full_pipelineReportsAnyway(h, df, d, used, kept, source_config, transform_config, report_config) ==
    RunEnd(
        RunReportAnyway(
            RunTransform(
                extract(h, df, d, used, source_config[1], source_config[2],
                        source_config[3], source_config[4]),
                kept, transform_config),
            report_config))

\* run_full_pipeline(source_config, transform_config, report_config): extract, then
\* transform and generate_report when their config is given; no exception is caught.
\* source_config is <<type, found, content, options>>.
run_full_pipeline(h, df, d, used, kept, source_config, transform_config, report_config) ==
    RunEnd(
        RunReport(
            RunTransform(
                extract(h, df, d, used, source_config[1], source_config[2],
                        source_config[3], source_config[4]),
                kept, transform_config),
            report_config))

---------------------------------------------------------------------------
(* The inputs of the model. *)

\* The DataFrame a source with these columns and rows is read as.
Frame(cols, rows) ==
    [kind |-> "DataFrame", cols |-> cols,
     dtypes |-> [j \in 1..Len(cols) |-> InferDtype([i \in 1..Len(rows) |-> rows[i][j]])],
     rows |-> rows]

SourceColumns == <<"k", "v">>

\* The rows a source holds: a key with a value and with a null value, a second key,
\* and a null key.
SourceRows == {<<Whole(0), Whole(1)>>, <<Whole(0), Null>>, <<Whole(1), Whole(1)>>, <<Null, Whole(1)>>}

\* Every DataFrame of up to MaxRows source rows: what the caller of a
\* DataTransformer hands it.
SourceTables == {Frame(SourceColumns, rows) : rows \in UNION {[1..n -> SourceRows] : n \in 0..MaxRows}}

\* The sources the pipeline reads: one with a duplicate row and a null, one with a
\* null and no duplicate, one without rows.
SampleTables ==
    {Frame(SourceColumns, <<<<Whole(1), Whole(1)>>, <<Whole(1), Whole(1)>>, <<Whole(0), Whole(0)>>,
                            <<Whole(1), Null>>>>),
     Frame(SourceColumns, <<<<Whole(0), Whole(1)>>, <<Whole(1), Whole(0)>>>>),
     Frame(SourceColumns, <<>>)}

Subsets == {None, Some(<<"k">>), Some(<<"z">>)}

Keeps == {"first", "last", "False"}

Strategies == {"drop", "fill", "ffill", "bfill", "mean", "median", "zero"}

\* The behaviours of DataFrame.fillna(None): pandas before 3.0 raises ValueError
\* ("Must specify a fill 'value' or 'method'"), pandas 3.0 fills with None, which
\* leaves the nulls as they are.
FillnaNone == {"raises", "noop"}

FillValues == {None, Some(Whole(0))}

ColumnLists == {None, Some(<<"v">>), Some(<<"v", "z">>)}

TypeMappings == {<<>>, <<<<"z", "int">>, <<"k", "float">>, <<"v", "int">>>>, <<<<"v", "complex">>>>}

\* The calculated columns a caller adds: the name and the calculation.
CalculatedColumns == {<<"w", [fn |-> "col", arg |-> "v"]>>, <<"v", [fn |-> "col", arg |-> "k"]>>,
                      <<"w", [fn |-> "col", arg |-> "z"]>>}

Conditions == {[fn |-> "notna", arg |-> "v"], [fn |-> "gt0", arg |-> "k"], [fn |-> "notna", arg |-> "z"]}

\* The last one renames k to v, a name the source's DataFrame has already.
Renames == {<<<<"z", "y">>, <<"v", "x">>>>, <<<<"k", "v">>, <<"v", "k">>>>, <<<<"k", "v">>>>}

\* The aggregations a caller asks for: the group_by list and the aggregations.
Groupings == {<<<<"k">>, <<<<"v", "sum">>>>>>, <<<<"k">>, <<<<"v", "count">>>>>>,
              <<<<"z">>, <<<<"v", "sum">>>>>>,
              <<<<>>, <<<<"v", "sum">>>>>>}

---------------------------------------------------------------------------
(* The state. *)

\* The references the program and the caller hold.
Live == {tdf, data, ext} \ {NoRef}

\* The object a reference points to, or None.
Snapshot(h, r) == IF r = NoRef THEN None ELSE Some(h[r])

\* The state with its references renamed in a fixed order (the caller's, the
\* transformer's, the pipeline's) and every other object reclaimed: references
\* are compared only for identity.
Settle(h, t, d, e) ==
    LET e2 == IF e = NoRef THEN NoRef ELSE "o1"
        t2 == IF t = NoRef THEN NoRef ELSE IF t = e THEN "o1" ELSE "o2"
        d2 == IF d = NoRef THEN NoRef ELSE IF d = e THEN "o1" ELSE IF d = t THEN "o2" ELSE "o3"
    IN [heap |-> [r \in Refs |-> IF r = e2 THEN h[e]
                                 ELSE IF r = t2 THEN h[t]
                                 ELSE IF r = d2 THEN h[d]
                                 ELSE FreeTable],
        tdf |-> t2, data |-> d2, ext |-> e2]

\* A call returns: the state it leaves, and the record of it (again: the call repeats
\* the call before it, which returned normally, with the same arguments).
Return(op, args, err, h, t, d, e, o, v) ==
    LET s == Settle(h, t, d, e)
    IN /\ heap' = s.heap
       /\ tdf' = s.tdf
       /\ data' = s.data
       /\ ext' = s.ext
       /\ out' = o
       /\ steps' = steps + 1
       /\ fillna_none' = fillna_none
       /\ last' = [op |-> op, args |-> args, err |-> err, val |-> v,
                   preT |-> Snapshot(heap, tdf), preD |-> Snapshot(heap, data),
                   preE |-> Snapshot(heap, ext), shared |-> (tdf # NoRef /\ tdf = ext),
                   again |-> (last.op = op /\ last.err = "" /\ last.args = args)]

Start == [op |-> "__init__", args |-> <<>>, err |-> "", val |-> None,
          preT |-> None, preD |-> None, preE |-> None, shared |-> FALSE,
          again |-> FALSE]

\* A transformer method returns (the caller keeps its own DataFrame).
TReturn(op, args, r) ==
    Return(op, args, r.err, r.h, r.df, data, ext, r.out,
           IF r.err = "" THEN Some(r.val) ELSE None)

\* A pipeline method returns.
PReturn(op, args, r) == Return(op, args, r.err, r.h, r.df, r.data, ext, r.out, r.val)

---------------------------------------------------------------------------
(* A DataTransformer and its caller. *)

\* The caller holds a DataFrame and constructs DataTransformer() or DataTransformer(df).
InitT ==
    \E T \in SourceTables \cup SampleTables, given \in BOOLEAN :
        /\ heap = [r \in Refs |-> IF r = "o1" THEN T ELSE FreeTable]
        /\ ext = "o1"
        /\ tdf = IF given THEN TransformerInit("o1") ELSE NoRef
        /\ data = NoRef
        /\ last = Start
        /\ out = <<>>
        /\ steps = 0
        /\ fillna_none \in FillnaNone

SetDataframe ==
    /\ steps < MaxCalls
    /\ TReturn("set_dataframe", <<>>, set_dataframe(heap, tdf, Live, ext))

\* get_dataframe(): the copy returned is recorded by value.
GetDataframe ==
    /\ steps < MaxCalls
    /\ LET r == get_dataframe(heap, tdf, Live)
       IN Return("get_dataframe", <<>>, r.err, r.h, r.df, data, ext, r.out,
                 IF r.err = "" THEN Some(r.h[r.val]) ELSE None)

RemoveDuplicates ==
    /\ steps < MaxCalls
    /\ \E subset \in Subsets, keep \in Keeps :
          /\ subset = Some(<<"z">>) => keep = "first"
          /\ subset = Some(<<"k">>) => keep # "False"
          /\ TReturn("remove_duplicates", <<subset, keep>>,
                     remove_duplicates(heap, tdf, Live, subset, keep))

HandleMissingValues ==
    /\ steps < MaxCalls
    /\ \E strategy \in Strategies, fill_value \in FillValues, columns \in ColumnLists :
          /\ strategy # "fill" => IsNone(fill_value)
          /\ strategy = "fill" => IsNone(fill_value) = IsNone(columns)
          /\ strategy \in {"drop", "fill"} => columns # Some(<<"v", "z">>)
          /\ strategy \in {"ffill", "median"} => IsNone(columns)
          /\ strategy \in {"bfill", "zero"} => columns = Some(<<"v">>)
          /\ strategy = "mean" => columns # Some(<<"v">>)
          /\ TReturn("handle_missing_values", <<strategy, fill_value, columns>>,
                     handle_missing_values(heap, tdf, Live, strategy, fill_value, columns))

ConvertTypes ==
    /\ steps < MaxCalls
    /\ \E type_mapping \in TypeMappings :
          TReturn("convert_types", <<type_mapping>>, convert_types(heap, tdf, type_mapping))

AddCalculatedColumn ==
    /\ steps < MaxCalls
    /\ \E c \in CalculatedColumns :
          TReturn("add_calculated_column", c, add_calculated_column(heap, tdf, c[1], c[2]))

FilterRows ==
    /\ steps < MaxCalls
    /\ \E condition \in Conditions :
          TReturn("filter_rows", <<condition>>, filter_rows(heap, tdf, Live, condition))

\* A rename that leaves two columns of one name is the caller's last call: what
\* the methods do with such a DataFrame is not modelled.
RenameColumns ==
    /\ steps < MaxCalls
    /\ \E mapping \in Renames :
          /\ (tdf # NoRef /\ IsFrame(heap[tdf]) /\ ~Distinct(Rename(heap[tdf], mapping).cols))
                 => steps = MaxCalls - 1
          /\ TReturn("rename_columns", <<mapping>>, rename_columns(heap, tdf, Live, mapping))

AggregateRows ==
    /\ steps < MaxCalls
    /\ \E g \in Groupings :
          TReturn("aggregate", g, aggregate(heap, tdf, Live, g[1], g[2]))

\* The caller changes its own DataFrame in place: df["m"] = 9.
Mutate ==
    /\ ext # NoRef
    /\ IsFrame(heap[ext])
    /\ Return("caller", <<>>, "",
              [heap EXCEPT ![ext] = SetColumn(heap[ext], "m", [i \in 1..NRows(heap[ext]) |-> Whole(9)], "int64")],
              tdf, data, ext, <<>>, None)

CallerMutates ==
    /\ steps < MaxCalls
    /\ Mutate

NextT ==
    \/ SetDataframe
    \/ GetDataframe
    \/ RemoveDuplicates
    \/ HandleMissingValues
    \/ ConvertTypes
    \/ AddCalculatedColumn
    \/ FilterRows
    \/ RenameColumns
    \/ AggregateRows
    \/ CallerMutates

SpecT == InitT /\ [][NextT]_vars

---------------------------------------------------------------------------
(* A DataPipeline and its caller. *)

SourceTypes == {"csv", "json", "excel", "database", "xml"}

HandleMissing == {None, Some("drop"), Some("fill"), Some("mean")}

TypeConversions == {None, Some(<<<<"v", "int">>>>)}

CalculatedColumnMaps ==
    {None,
     Some(<<<<"w", [fn |-> "col", arg |-> "v"]>>, <<"v", [fn |-> "col", arg |-> "k"]>>>>),
     Some(<<<<"w", [fn |-> "col", arg |-> "z"]>>>>)}

DestinationTypes == {"csv", "excel", "parquet"}

ChartLists ==
    {None,
     Some(<<[type |-> "bar", x |-> Some("k"), y |-> Some("v")]>>),
     Some(<<[type |-> "pie", x |-> Some("k"), y |-> Some("v")],
            [type |-> "line", x |-> Some("k"), y |-> Some("v")],
            [type |-> "heatmap", x |-> None, y |-> None]>>),
     Some(<<[type |-> "bar", x |-> None, y |-> Some("v")],
            [type |-> "heatmap", x |-> None, y |-> None]>>),
     Some(<<[type |-> "line", x |-> Some("z"), y |-> Some("v")]>>)}

\* DataPipeline(): no data, and a DataTransformer() that holds none.
Init ==
    /\ heap = [r \in Refs |-> FreeTable]
    /\ ext = NoRef
    /\ tdf = TransformerInit(NoRef)
    /\ data = NoRef
    /\ last = Start
    /\ out = <<>>
    /\ steps = 0
    /\ fillna_none \in FillnaNone

Extract ==
    /\ steps < MaxSteps
    /\ \E source_type \in SourceTypes, found \in BOOLEAN, content \in SampleTables,
          options \in {{}, {"sheet_name"}, {"query"}} :
          /\ "sheet_name" \in options => source_type = "excel"
          /\ "query" \in options => source_type = "database"
          /\ PReturn("extract", <<source_type, found, content, options>>,
                     extract(heap, tdf, data, Live, source_type, found, content, options))

Transform ==
    /\ steps < MaxSteps
    /\ \E dups \in BOOLEAN, handle_missing \in HandleMissing,
          type_conversions \in TypeConversions, calculated_columns \in CalculatedColumnMaps :
          PReturn("transform", <<dups, handle_missing, type_conversions, calculated_columns>>,
                  transform(heap, tdf, data, Live, dups, handle_missing, type_conversions,
                            calculated_columns))

Load ==
    /\ steps < MaxSteps
    /\ \E destination_type \in DestinationTypes :
          PReturn("load", <<destination_type>>, load(heap, tdf, data, destination_type))

GenerateReport ==
    /\ steps < MaxSteps
    /\ \E charts \in ChartLists :
          PReturn("generate_report", <<charts>>,
                  generate_report(heap, tdf, data, IF IsNone(charts) THEN <<>> ELSE Get(charts)))

\* get_data(): the caller keeps the DataFrame returned.
GetData ==
    /\ steps < MaxSteps
    /\ LET r == get_data(heap, tdf, data, Live)
       IN Return("get_data", <<>>, r.err, r.h, r.df, r.data,
                 IF r.err = "" THEN Get(r.val) ELSE ext, r.out, None)

GetSummary ==
    /\ steps < MaxSteps
    /\ PReturn("get_summary", <<>>, get_summary(heap, tdf, data))

\* The configs a caller gives run_full_pipeline.
SourceConfigs ==
    {<<"csv", found, Frame(SourceColumns, <<<<Whole(1), Whole(1)>>, <<Whole(1), Whole(1)>>,
                                            <<Whole(0), Whole(0)>>, <<Whole(1), Null>>>>), {}>> :
        found \in BOOLEAN}

TransformConfigs ==
    {None,
     Some(<<TRUE, Some("mean"), Some(<<<<"v", "int">>>>),
            Some(<<<<"w", [fn |-> "col", arg |-> "v"]>>>>)>>),
     Some(<<FALSE, None, Some(<<<<"v", "int">>>>), None>>)}

ReportConfigs ==
    {None, Some(None),
     Some(Some(<<[type |-> "heatmap", x |-> None, y |-> None],
                 [type |-> "line", x |-> Some("z"), y |-> Some("v")]>>))}

\* run_full_pipeline(): the DataFrame returned is recorded by value.
RunFullPipeline ==
    /\ steps < MaxSteps
    /\ \E source_config \in SourceConfigs, transform_config \in TransformConfigs,
          report_config \in ReportConfigs :
          /\ ~source_config[2] => (~IsNone(transform_config) /\ report_config = Some(None))
          /\ \E r \in {run_full_pipeline(heap, tdf, data, Live, {ext} \ {NoRef}, source_config,
                                         transform_config, report_config)} :
                Return("run_full_pipeline", <<source_config, transform_config, report_config>>,
                       r.err, r.h, r.df, r.data, ext, r.out,
                       IF r.err = "" THEN Some(r.h[Get(r.val)]) ELSE None)

\* The caller changes the DataFrame get_data() gave it.
CallerMutatesCopy ==
    /\ steps < MaxSteps
    /\ Mutate

Next ==
    \/ Extract
    \/ Transform
    \/ Load
    \/ GenerateReport
    \/ GetData
    \/ GetSummary
    \/ RunFullPipeline
    \/ CallerMutatesCopy

Spec == Init /\ [][Next]_vars

---------------------------------------------------------------------------
(* Properties of the pipeline and of the transformer. *)

IsPrefix(a, b) == Len(a) <= Len(b) /\ a = SubSeq(b, 1, Len(a))

\* The printed lines, by message and subject.
Lines(o) == [i \in 1..Len(o) |-> <<o[i].msg, o[i].s>>]

\* The lines a transform with these arguments prints when every requested step runs:
\* duplicates, missing values, types, then the calculated columns in mapping order.
TransformLines(args) ==
    (IF args[1] THEN << <<"Removed duplicate rows", "">> >> ELSE <<>>)
    \o (IF IsNone(args[2]) THEN <<>>
        ELSE << <<"Applied strategy for missing values", Get(args[2])>> >>)
    \o (IF IsNone(args[3]) THEN <<>> ELSE << <<"Converted types for columns", "">> >>)
    \o (IF IsNone(args[4]) THEN <<>>
        ELSE [i \in 1..Len(Get(args[4])) |->
                 <<"Added calculated column", Get(args[4])[i][1]>>])

\* C1: a transform on loaded data runs its requested steps in the order duplicate
\* removal, missing values, type conversions, calculated columns (in mapping order):
\* the steps that ran are a prefix of that order, all of them when it returns, and
\* then the current data is a separate object equal to the transformer's table.
C1_TransformOrder ==
    (last.op = "transform" /\ ~IsNone(last.preD))
        => /\ IsPrefix(Lines(out), TransformLines(last.args))
           /\ last.err = ""
                => /\ Lines(out) = TransformLines(last.args)
                   /\ data # NoRef /\ tdf # NoRef /\ data # tdf
                   /\ heap[data] = heap[tdf]

\* A transform that ran all four kinds of step, with two calculated columns, and
\* changed the data.
C1_Witness ==
    /\ last.op = "transform" /\ last.err = ""
    /\ Len(out) = 5
    /\ heap[data] # Get(last.preD)

\* The summary of a DataFrame: rows, columns, column names in order.
SummaryOf(T) == [rows |-> Len(T.rows), columns |-> Len(T.cols), column_names |-> T.cols]

\* C2: before any extract has succeeded get_summary returns the "No data loaded"
\* status without raising and get_data raises the no-data error; once an extract
\* has succeeded get_summary returns the row count, the column count and the ordered
\* column names of the current data.
C2_SummaryAndData ==
    /\ (last.op = "get_summary" /\ IsNone(last.preD))
          => last.err = "" /\ last.val = Some([status |-> "No data loaded"])
    /\ (last.op = "get_data" /\ IsNone(last.preD)) => last.err = NoData
    /\ (last.op = "get_summary" /\ ~IsNone(last.preD))
          => last.err = "" /\ last.val = Some(SummaryOf(Get(last.preD)))

\* The part of C2 before any data is loaded.
C2_BeforeExtract ==
    /\ (last.op = "get_summary" /\ IsNone(last.preD))
          => last.err = "" /\ last.val = Some([status |-> "No data loaded"])
    /\ (last.op = "get_data" /\ IsNone(last.preD)) => last.err = NoData

\* The part of C2 after an extract, when the data extracted is a DataFrame.
C2_SummaryOfFrame ==
    (last.op = "get_summary" /\ ~IsNone(last.preD) /\ IsFrame(Get(last.preD)))
        => last.err = "" /\ last.val = Some(SummaryOf(Get(last.preD)))

\* The errors that say there is no data: the ValueErrors "No data loaded. Run
\* extract() first.", "No data to load. Run extract() first." and "No data loaded.".
NoDataErrors == {NoDataLoaded, NoDataToLoad, NoData}

TransformerOps ==
    {"remove_duplicates", "handle_missing_values", "convert_types",
     "add_calculated_column", "filter_rows", "rename_columns", "aggregate"}

\* C4: every operation of a DataTransformer that holds no DataFrame (built without
\* one, never given one by set_dataframe) fails: it raises an error, whichever
\* exception stands for the no-data error, instead of returning.
C4_NoTableFails ==
    (last.op \in TransformerOps /\ IsNone(last.preT)) => last.err # ""

\* C5: the DataTransformer alone owns its DataFrame, however it was given
\* (constructor or set_dataframe): no call on the transformer changes the DataFrame
\* object of the caller, and the caller changing its own DataFrame never changes the
\* one the transformer holds.
C5_ExclusiveOwnership ==
    /\ (last.op \in TransformerOps \cup {"set_dataframe", "get_dataframe"})
          => Snapshot(heap, ext) = last.preE
    /\ last.op = "caller" => Snapshot(heap, tdf) = last.preT

\* The part of C5 for a DataFrame given by set_dataframe: the transformer and the
\* caller do not share the object, and neither changes the other's.
C5_AfterSetDataframe ==
    ~last.shared
        => /\ (last.op \in TransformerOps \cup {"set_dataframe", "get_dataframe"})
                 => Snapshot(heap, ext) = last.preE
           /\ last.op = "caller" => Snapshot(heap, tdf) = last.preT

\* C6: the DataFrame get_data() returns is a copy of the current data in an object
\* of its own; no later extract or transform changes it, and the caller changing it
\* changes neither the pipeline's data nor the transformer's DataFrame.
C6_DefensiveCopy ==
    /\ (last.op = "get_data" /\ last.err = "")
          => /\ ext \notin {NoRef, data, tdf}
             /\ heap[ext] = heap[data]
    /\ (last.op \in {"extract", "transform"} /\ ~IsNone(last.preE))
          => Snapshot(heap, ext) = last.preE
    /\ last.op = "caller"
          => /\ Snapshot(heap, data) = last.preD
             /\ Snapshot(heap, tdf) = last.preT

\* The caller has changed a DataFrame it got from get_data(), which now differs from
\* the pipeline's data.
C6_Witness ==
    /\ last.op = "caller"
    /\ data # NoRef /\ ext # NoRef
    /\ IsFrame(heap[data])
    /\ heap[ext] # heap[data]
    /\ NRows(heap[data]) > 0

\* C7: remove_duplicates(subset=S, keep="first") leaves as many rows as there are
\* distinct combinations of values of S (of all columns when S is None) in the
\* DataFrame it started from; the row kept for a combination is its first
\* occurrence, and the rows kept stay in their original order.
C7_KeepFirst ==
    (last.op = "remove_duplicates" /\ last.err = "" /\ last.args[2] = "first")
        => LET T == Get(last.preT)
               R == heap[tdf]
               names == IF IsNone(last.args[1]) THEN T.cols ELSE Get(last.args[1])
           IN /\ R.cols = T.cols
              /\ NRows(R) = Cardinality({RowKey(T, names, i) : i \in 1..NRows(T)})
              /\ \E f \in [1..NRows(R) -> 1..NRows(T)] :
                    /\ \A a, b \in 1..NRows(R) : a < b => f[a] < f[b]
                    /\ \A a \in 1..NRows(R) :
                          /\ R.rows[a] = T.rows[f[a]]
                          /\ \A j \in 1..(f[a] - 1) :
                                RowKey(T, names, j) # RowKey(T, names, f[a])

\* remove_duplicates(subset=["k"], keep="first") kept two rows and removed a row
\* that is equal to no row kept.
C7_Witness ==
    /\ last.op = "remove_duplicates" /\ last.err = ""
    /\ last.args = <<Some(<<"k">>), "first">>
    /\ NRows(heap[tdf]) = 2
    /\ \E i \in 1..NRows(Get(last.preT)) :
          \A a \in 1..NRows(heap[tdf]) : heap[tdf].rows[a] # Get(last.preT).rows[i]

\* C8: remove_duplicates called a second time in a row with the same subset and
\* keep returns as the first did, leaves the DataFrame the first call left, and
\* reports zero rows removed.
C8_Idempotent ==
    (last.op = "remove_duplicates" /\ last.again)
        => /\ last.err = ""
           /\ heap[tdf] = Get(last.preT)
           /\ Len(out) = 1 /\ out[1].msg = "Removed duplicate rows" /\ out[1].n = 0

\* The second of two equal remove_duplicates calls, the first of which removed rows
\* of the caller's DataFrame.
C8_Witness ==
    /\ last.op = "remove_duplicates" /\ last.again /\ last.err = ""
    /\ ~last.shared
    /\ ext # NoRef /\ ~HasCol(heap[ext], "m")
    /\ NRows(heap[tdf]) < NRows(heap[ext])

C10_FillZero ==
    (/\ last.op = "handle_missing_values"
     /\ last.args = <<"fill", Some(Whole(0)), Some(<<"v">>)>>
     /\ last.err = "")
        => LET T == Get(last.preT)
               R == heap[tdf]
               v == ColIdx(T, "v")
           IN /\ R.cols = T.cols
              /\ NRows(R) = NRows(T)
              /\ \A i \in 1..NRows(T) : \A j \in 1..Len(T.cols) :
                    R.rows[i][j] = IF j = v /\ IsNull(T.rows[i][j]) THEN Whole(0)
                                   ELSE T.rows[i][j]

\* A fill of v with 0 on a DataFrame with a null in v, a non-null cell in v and a
\* null in k.
C10_Witness ==
    /\ last.op = "handle_missing_values" /\ last.err = ""
    /\ last.args = <<"fill", Some(Whole(0)), Some(<<"v">>)>>
    /\ LET T == Get(last.preT)
       IN /\ \E i \in 1..NRows(T) : IsNull(T.rows[i][ColIdx(T, "v")])
          /\ \E i \in 1..NRows(T) : ~IsNull(T.rows[i][ColIdx(T, "v")])
          /\ \E i \in 1..NRows(T) : IsNull(T.rows[i][ColIdx(T, "k")])

\* C11: handle_missing_values with strategy "fill" and no fill_value on a held
\* DataFrame fails (raises an error, whichever exception stands for the
\* configuration error) and leaves the DataFrame as it was; so does the call that
\* transform(handle_missing="fill") makes, which passes the strategy alone.
C11_FillNeedsValue ==
    /\ (/\ last.op = "handle_missing_values"
        /\ last.args[1] = "fill" /\ IsNone(last.args[2])
        /\ ~IsNone(last.preT))
          => /\ last.err # ""
             /\ Snapshot(heap, tdf) = last.preT
    /\ (last.op = "transform" /\ last.args[2] = Some("fill") /\ ~IsNone(last.preD))
          => last.err # ""

\* The part of C11 that holds: a fill without a value never changes a cell.
C11_FillNoneKeepsTable ==
    (/\ last.op = "handle_missing_values"
     /\ last.args[1] = "fill" /\ IsNone(last.args[2])
     /\ ~IsNone(last.preT))
        => Snapshot(heap, tdf) = last.preT

\* C12: extract with a source type other than csv, json, excel and database raises
\* the unsupported-source error and changes neither the pipeline's data nor the
\* transformer's DataFrame; an extract that returns has stored the DataFrame read
\* from the source as the data and given the transformer a separate copy of it, in
\* place of whatever the transformer held.
C12_Extract ==
    /\ (last.op = "extract" /\ last.args[1] \notin {"csv", "json", "excel", "database"})
          => /\ last.err = UnsupportedSource
             /\ Snapshot(heap, data) = last.preD
             /\ Snapshot(heap, tdf) = last.preT
    /\ (last.op = "extract" /\ last.err = "")
          => /\ data # NoRef /\ tdf # NoRef /\ data # tdf
             /\ IsFrame(heap[data])
             /\ heap[data] = last.args[3]
             /\ heap[tdf] = heap[data]

\* The part of C12 that holds: the unsupported source type, and every extract that
\* returns except the excel one without sheet_name; that one too gives the
\* transformer a separate copy of what it stored.
C12_ExtractOfFrame ==
    /\ (last.op = "extract" /\ last.args[1] \notin {"csv", "json", "excel", "database"})
          => /\ last.err = UnsupportedSource
             /\ Snapshot(heap, data) = last.preD
             /\ Snapshot(heap, tdf) = last.preT
    /\ (last.op = "extract" /\ last.err = "")
          => /\ data # NoRef /\ tdf # NoRef /\ data # tdf
             /\ heap[tdf] = heap[data]
             /\ (last.args[1] = "excel" /\ "sheet_name" \notin last.args[4])
                   \/ heap[data] = last.args[3]

\* C13: the pipeline has no data until an extract returns (called by the caller, or
\* by run_full_pipeline as its first stage); once it has data it has data after
\* every later call, failed ones included; and no call but extract and transform
\* (and run_full_pipeline, which calls them) changes the data.
C13_Lifecycle ==
    /\ (IsNone(last.preD) /\ data # NoRef)
          => \/ last.op = "extract" /\ last.err = ""
             \/ last.op = "run_full_pipeline" /\ Len(out) >= 1 /\ out[1].msg = "Loaded rows"
    /\ ~IsNone(last.preD) => data # NoRef
    /\ last.op \notin {"extract", "transform", "run_full_pipeline"}
          => Snapshot(heap, data) = last.preD

\* An extract failed on a pipeline that had data, and the data is still there.
C13_Witness ==
    /\ last.op = "extract" /\ last.err # ""
    /\ ~IsNone(last.preD)
    /\ Snapshot(heap, data) = last.preD

\* The stage of run_full_pipeline that prints a line: 1 extract, 2 transform,
\* 3 generate_report, 4 the end.
StageOf(line) ==
    CASE line.msg \in {"Loaded rows", "Loaded rows from database"} -> 1
      [] line.msg \in {"Removed duplicate rows", "Applied strategy for missing values",
                       "Converted types for columns", "Added calculated column"} -> 2
      [] line.msg \in {"HTML report generated", "Figure saved"} -> 3
      [] OTHER -> 4

\* The lines of stage k among o, in order.
StageLines(o, k) == Lines(SelectSeq(o, LAMBDA line : StageOf(line) = k))

\* C14: run_full_pipeline runs extract, then transform when a transform config is
\* given, then generate_report when a report config is given, in that order, and
\* returns the data it ends with; a stage that raises ends the call with its error
\* and no later stage runs: nothing follows a failed extract, and no report is
\* written unless the transform before it ran to its end.
C14_RunFullPipeline ==
    last.op = "run_full_pipeline"
        => LET transform_config == last.args[2]
               report_config == last.args[3]
               has(k) == \E i \in 1..Len(out) : StageOf(out[i]) = k
               transformed == IsNone(transform_config)
                              \/ StageLines(out, 2) = TransformLines(Get(transform_config))
           IN /\ \A i, j \in 1..Len(out) : i < j => StageOf(out[i]) <= StageOf(out[j])
              /\ has(2) => (has(1) /\ ~IsNone(transform_config))
              /\ has(3) => (has(1) /\ ~IsNone(report_config) /\ transformed)
              /\ has(4) <=> last.err = ""
              /\ last.err = ""
                    => /\ has(1) /\ transformed
                       /\ IsNone(transform_config) => ~has(2)
                       /\ has(3) <=> ~IsNone(report_config)
                       /\ data # NoRef /\ last.val = Some(heap[data])

\* A run_full_pipeline with a report config whose transform raised after the extract:
\* no report line was printed.
C14_Witness ==
    /\ last.op = "run_full_pipeline" /\ last.err = "ValueError"
    /\ ~IsNone(last.args[2]) /\ ~IsNone(last.args[3])
    /\ Len(out) = 1 /\ StageOf(out[1]) = 1

\* A chart spec of a type generate_report dispatches.
Dispatched(chart) == chart.type \in {"bar", "line", "heatmap"}

\* A dispatched chart spec the reporter cannot draw from T: a bar or line chart
\* without its x or y key, or with a column T does not have.
Undrawable(chart, T) ==
    /\ chart.type \in {"bar", "line"}
    /\ \/ IsNone(chart.x) \/ IsNone(chart.y)
       \/ ~HasCol(T, Get(chart.x)) \/ ~HasCol(T, Get(chart.y))

\* C15: generate_report on loaded data writes the HTML report first and then takes
\* the chart specs in list order, drawing each spec of type bar, line or heatmap
\* and passing over every spec of another type without an error and without
\* stopping: the lines printed are the HTML line and one line for each dispatched
\* spec before the first one that cannot be drawn, the call raises only if there is
\* such a spec, and the data is not changed.
C15_ReportDispatch ==
    (last.op = "generate_report" /\ ~IsNone(last.preD) /\ IsFrame(Get(last.preD)))
        => LET T == Get(last.preD)
               charts == IF IsNone(last.args[1]) THEN <<>> ELSE Get(last.args[1])
               bad == {i \in 1..Len(charts) : Undrawable(charts[i], T)}
               drawn == {i \in 1..Len(charts) :
                            Dispatched(charts[i]) /\ \A j \in bad : i < j}
           IN /\ Len(out) >= 1 /\ Lines(out)[1] = <<"HTML report generated", "">>
              /\ Lines(out) = << <<"HTML report generated", "">> >>
                              \o [n \in 1..Cardinality(drawn) |->
                                    <<"Figure saved", SelectIdx(charts, drawn)[n].type>>]
              /\ last.err = "" <=> bad = {}
              /\ Snapshot(heap, data) = last.preD
              /\ Snapshot(heap, tdf) = last.preT

\* A report over a pie, a line and a heatmap spec: the pie is passed over and the
\* two others are drawn.
C15_Witness ==
    /\ last.op = "generate_report" /\ last.err = ""
    /\ ~IsNone(last.args[1])
    /\ Get(last.args[1])[1].type = "pie"
    /\ Lines(out) = << <<"HTML report generated", "">>, <<"Figure saved", "line">>,
                       <<"Figure saved", "heatmap">> >>

\* C16: every call of a DataTransformer operation (set_dataframe and the seven
\* transformations) and every call of Pipeline.extract, transform, load and
\* generate_report that returns normally returns the instance it was called on,
\* never None and never a copy, so the call chained on its result runs on the
\* state this call left.
ChainedOps ==
    {"set_dataframe", "extract", "transform", "load", "generate_report"} \cup TransformerOps

C16_PipelineChain ==
    /\ last.op = "transform" /\ last.err = "" /\ last.val = Some(Self)
    /\ ~IsNone(last.preD) /\ Snapshot(heap, data) # last.preD

\* C17: the DataFrame a DataTransformer holds has no two columns of one name, and
\* every row of it has one cell (and the DataFrame one dtype) for each column, after
\* any sequence of the transformer's operations on a DataFrame that started so.
WellFormed(T) ==
    /\ Distinct(T.cols)
    /\ Len(T.dtypes) = Len(T.cols)
    /\ \A i \in 1..NRows(T) : Len(T.rows[i]) = Len(T.cols)

C17_TableInvariant ==
    (tdf # NoRef /\ IsFrame(heap[tdf])) => WellFormed(heap[tdf])

\* The half of C17 that holds: every column of the DataFrame held has the same
\* number of cells, whatever its names are.
C17_EqualRowCounts ==
    (tdf # NoRef /\ IsFrame(heap[tdf]))
        => /\ Len(heap[tdf].dtypes) = Len(heap[tdf].cols)
           /\ \A i \in 1..NRows(heap[tdf]) : Len(heap[tdf].rows[i]) = Len(heap[tdf].cols)

\* Columns added, dropped and renamed without a collision: the operations that
\* could break the equal row counts have acted.
C17_ColumnsChanged ==
    /\ last.op \in {"add_calculated_column", "aggregate", "rename_columns"} /\ last.err = ""
    /\ ~IsNone(last.preT) /\ IsFrame(Get(last.preT))
    /\ tdf # NoRef /\ heap[tdf].cols # Get(last.preT).cols
    /\ NRows(heap[tdf]) > 0

\* C18: a transform that raises leaves self.data as it was before the call, the
\* same DataFrame with the same contents, whatever the steps that ran before the
\* failing one did to the transformer's DataFrame; get_data and get_summary
\* therefore still describe the data from before the call.
C18_FailedTransformKeepsData ==
    (last.op = "transform" /\ last.err # "") => Snapshot(heap, data) = last.preD

\* A transform whose type conversion raised after remove_duplicates had removed a
\* row and handle_missing_values had run: the transformer's DataFrame has changed,
\* the pipeline's has not.
C18_Witness ==
    /\ last.op = "transform" /\ last.err # ""
    /\ ~IsNone(last.preD) /\ IsFrame(Get(last.preD))
    /\ last.args[1] /\ ~IsNone(last.args[2]) /\ ~IsNone(last.args[3])
    /\ Len(out) = 2 /\ out[1].n > 0
    /\ Snapshot(heap, tdf) # last.preT
    /\ Snapshot(heap, tdf) # Snapshot(heap, data)

====
